---- MODULE Spec2Model ----
(***************************************************************************)
(* A model of json-schema-docs-generator's schema resolution:              *)
(*   lib/object-definition.js       ObjectDefinition.build and helpers     *)
(*   lib/example-data-extractor.js  ExampleDataExtractor.extract and       *)
(*                                  helpers (src/unnamed/part_000)         *)
(*                                                                         *)
(* A schema node is a record with one field per keyword the code reads;    *)
(* `keys` is the set of keywords the JSON object really has, every other   *)
(* field holds a default that the code never reads when the key is absent. *)
(* JS values produced by extract are records [k, s, m]: k is the kind      *)
(* (undef, lit, map, arr, err), s the literal or the error name, m the own *)
(* enumerable properties (an array [v] has the one property "0").          *)
(* Literals are written with their JS type: "s:x", "s:" (the empty         *)
(* string), "n:1", "n:0", "b:true", "b:false".                             *)
(***************************************************************************)
EXTENDS Naturals, Sequences, FiniteSets, TLC

VARIABLES
  doc,        \* the caller's schema object, as the calls so far have left it
  pristine,   \* the schema object as the caller constructed it
  arg,        \* the component handed to the last call
  rootArg,    \* the root handed to the last extract call
  op,         \* the last call: "none", "build" or "extract"
  defResult,  \* what the last build returned (or the error it threw)
  exResult    \* what the last extract returned (or the error it threw)

vars == <<doc, pristine, arg, rootArg, op, defResult, exResult>>

(***************************************************************************)
(* Bounds of the model.                                                    *)
(***************************************************************************)
\* Frames of extract/mapPropertiesToExamples the engine's call stack holds
\* before it throws RangeError (thousands in a real engine).
StackLimit == 8
\* Longest allOf list of the schemas built.
MaxMembers == 2
\* Longest oneOf/anyOf list of the schemas extracted from.
MaxAlternatives == 2
\* Most groups in an exclusive list.
MaxGroups == 2

(***************************************************************************)
(* Schema nodes.                                                           *)
(***************************************************************************)
Blank ==
  [ js |-> "map", keys |-> {}, type |-> "undefined", id |-> "undefined",
    rel |-> "undefined", noDisplay |-> FALSE, private |-> FALSE,
    example |-> "undefined", default |-> "undefined", required |-> <<>>,
    properties |-> <<>>, apKind |-> "undefined", additionalProperties |-> <<>>,
    includeAdditionalProperties |-> FALSE,
    allOf |-> <<>>, oneOf |-> <<>>, anyOf |-> <<>>, items |-> <<>>,
    exclusive |-> <<>>, enum |-> <<>> ]

\* The node with the keywords of record r, as a JSON object literal.
Mk(r) ==
  [f \in DOMAIN Blank |->
     IF f = "keys" THEN DOMAIN r \ {"apKind", "includeAdditionalProperties"}
     ELSE IF f \in DOMAIN r THEN r[f] ELSE Blank[f]]

\* undefined (a missing items, oneOf[0] of an empty list, an omitted root).
UndefNode == [Blank EXCEPT !.js = "undef"]
\* A truthy value that is not a plain object (true, "string").
PrimNode == [Blank EXCEPT !.js = "prim"]

Has(node, key) == key \in node.keys

\* Property names in the order the schemas of the model list them
\* (for..in and _.transform visit keys in insertion order).
NameOrder == <<"a", "b", "c", "ID", "__h", "prop">>

OrderedKeys(f) == SelectSeq(NameOrder, LAMBDA n : n \in DOMAIN f)

StartsWithDunder(name) == name \in {"__h"}

\* propName === 'ID' ? propName.toLowerCase() : propName
OutName(name) == IF name = "ID" THEN "id" ELSE name

Restrict(f, S) == [x \in S |-> f[x]]
Without(f, S) == [x \in DOMAIN f \ S |-> f[x]]
\* _.extend on own properties: right-biased union.
Union(f, g) == [x \in DOMAIN f \cup DOMAIN g |-> IF x \in DOMAIN g THEN g[x] ELSE f[x]]

(***************************************************************************)
(* JS values.                                                              *)
(***************************************************************************)
Undefined == [k |-> "undef", s |-> "", m |-> <<>>]
Lit(l) == IF l = "undefined" THEN Undefined ELSE [k |-> "lit", s |-> l, m |-> <<>>]
Map(f) == [k |-> "map", s |-> "", m |-> f]
Arr(v) == [k |-> "arr", s |-> "", m |-> [i \in {"0"} |-> v]]
Err(e) == [k |-> "err", s |-> e, m |-> <<>>]

IsErr(v) == v.k = "err"

NonEmptyStrings == {"s:x", "s:y", "s:unknown"}
FalsyLiterals == {"s:", "n:0", "b:false"}

\* JS truthiness.
Truthy(v) ==
  CASE v.k = "undef" -> FALSE
    [] v.k = "lit" -> v.s \notin FalsyLiterals
    [] OTHER -> TRUE

\* _.isEmpty: null/undefined, numbers and booleans have no own enumerable
\* keys and count as empty; a string is empty when its length is 0.
IsEmpty(v) ==
  CASE v.k = "undef" -> TRUE
    [] v.k = "lit" -> v.s \notin NonEmptyStrings
    [] OTHER -> DOMAIN v.m = {}

\* The own enumerable properties _.extend copies from a source.
OwnProps(v) ==
  CASE v.k \in {"map", "arr"} -> v.m
    [] v.k = "lit" /\ v.s \in {"s:x", "s:y"} -> [i \in {"0"} |-> v]
    [] OTHER -> <<>>

\* _.extend(acc, src): assigns into an object; a primitive target is
\* returned as it is.
Extend(acc, src) ==
  IF acc.k \in {"map", "arr"} THEN [acc EXCEPT !.m = Union(acc.m, OwnProps(src))]
  ELSE acc

\* delete v[key]
DeleteKey(v, key) ==
  CASE v.k = "undef" -> Err("TypeError")
    [] v.k \in {"map", "arr"} -> [v EXCEPT !.m = Without(v.m, {key})]
    [] OTHER -> v

(***************************************************************************)
(* ExampleDataExtractor                                                    *)
(***************************************************************************)
getExampleDataFromItem(reference) ==
  IF reference.js # "map" THEN Lit("s:unknown")
  ELSE IF Has(reference, "example") THEN Lit(reference.example)
  ELSE IF Has(reference, "default") THEN Lit(reference.default)
  ELSE Undefined

\* A loop that starts at the first member of the group.
DeletedMembersFromFirst(group) == group

\* The members of a group the inner loop visits: `for (var jj = 1; ...)`,
\* every member but the first (lines 73 and 126).
DeletedMembers(group) == SubSeq(group, 2, Len(group))

\* Lines 73-75, 126-128: delete v[group[jj]] for each jj the loop visits.
RECURSIVE PruneGroup(_, _, _)
PruneGroup(v, members, jj) ==
  IF IsErr(v) \/ jj > Len(members) THEN v
  ELSE PruneGroup(DeleteKey(v, members[jj]), members, jj + 1)

\* Lines 72-76, 125-129.
RECURSIVE PruneExclusive(_, _, _)
PruneExclusive(v, groups, ii) ==
  IF IsErr(v) \/ ii > Len(groups) THEN v
  ELSE PruneExclusive(PruneGroup(v, DeletedMembers(groups[ii]), 1), groups, ii + 1)

ItemsOf(node) == IF Has(node, "items") THEN node.items[1] ELSE UndefNode
FirstOf(list) == IF Len(list) > 0 THEN list[1] ELSE UndefNode

\* The methods call one another (extract and mapPropertiesToExamples, build
\* and defineProperty, build and extract): every call goes through Call,
\* which dispatches on the method's name to the method's body.
RECURSIVE Call(_, _)

extract(component, rt0, d) == Call("extract", <<component, rt0, d>>)
mapPropertiesToExamples(props, sch, d) == Call("mapPropertiesToExamples", <<props, sch, d>>)
build(object) == Call("build", <<object>>)
defineProperties(properties) == Call("defineProperties", <<properties>>)
defineProperty(property) == Call("defineProperty", <<property>>)

RECURSIVE ExtractAllOf(_, _, _, _, _)
RECURSIVE MapAllOf(_, _, _, _, _)
RECURSIVE MapEach(_, _, _, _, _)

\* Lines 36-44: the reduce over component.allOf.
ExtractAllOf(list, i, accumulator, rt, d) ==
  IF IsErr(accumulator) \/ i > Len(list) THEN accumulator
  ELSE LET ex == extract(list[i], rt, d)
       IN IF IsErr(ex) THEN ex
          ELSE IF list[i].js = "map" /\ Has(list[i], "additionalProperties")
                  /\ list[i].apKind = "false"
               THEN ExtractAllOf(list, i + 1, ex, rt, d)
               ELSE ExtractAllOf(list, i + 1, Extend(accumulator, ex), rt, d)

\* Lines 19-69: extract up to the exclusive loop.
ExtractMerged(component, rt0, d) ==
  IF d > StackLimit THEN Err("RangeError")
  ELSE IF component.js = "undef" THEN Err("ReferenceError")
  ELSE
    LET rt == IF component.id # "undefined" THEN component ELSE rt0
        props == IF Has(component, "properties") THEN component.properties ELSE <<>>
        reduced0 ==
          IF Has(component, "allOf")
            THEN ExtractAllOf(component.allOf, 1, Map(<<>>), rt, d + 1)
          ELSE IF Has(component, "oneOf")
            THEN extract(FirstOf(component.oneOf), rt, d + 1)
          ELSE IF Has(component, "anyOf")
            THEN extract(FirstOf(component.anyOf), rt, d + 1)
          ELSE IF component.rel = "self"
            THEN extract(rt, rt, d + 1)
          ELSE IF Has(component, "properties")
            THEN mapPropertiesToExamples(component.properties, rt, d + 1)
          ELSE getExampleDataFromItem(component)
        reduced1 ==
          IF IsErr(reduced0) THEN reduced0
          ELSE IF Has(component, "additionalProperties")
                  /\ component.includeAdditionalProperties
            THEN LET more == mapPropertiesToExamples(component.additionalProperties, rt, d + 1)
                 IN IF IsErr(more) THEN more ELSE Extend(reduced0, more)
          ELSE reduced0
    IN IF component.type = "array"
         THEN LET item == extract(ItemsOf(component), rt, d + 1)
              IN IF IsErr(item) THEN item ELSE Arr(item)
       ELSE IF IsErr(reduced1) THEN reduced1
       ELSE IF IsEmpty(reduced1) THEN mapPropertiesToExamples(props, rt, d + 1)
       ELSE reduced1

\* Lines 19-80.
extractBody(component, rt0, d) ==
  LET reduced == ExtractMerged(component, rt0, d)
  IN IF IsErr(reduced) \/ component.type = "array" THEN reduced
     ELSE IF Has(component, "exclusive")
       THEN PruneExclusive(reduced, component.exclusive, 1)
     ELSE reduced

\* Lines 118-122: the reduce over propConfig.allOf.
MapAllOf(list, i, accumulator, sch, d) ==
  IF IsErr(accumulator) \/ i > Len(list) THEN accumulator
  ELSE LET ex == extract(list[i], sch, d)
       IN IF IsErr(ex) THEN ex
          ELSE MapAllOf(list, i + 1, Extend(accumulator, ex), sch, d)

\* Lines 102-130: the example of one property.
PropertyExample(propConfig, sch, d) ==
  LET ex0 == getExampleDataFromItem(propConfig)
      ex1 ==
        IF propConfig.rel = "self" THEN extract(sch, sch, d)
        ELSE IF propConfig.type = "array" /\ Has(propConfig, "items") /\ ~Truthy(ex0)
          THEN IF Truthy(Lit(ItemsOf(propConfig).example))
                 THEN Arr(Lit(ItemsOf(propConfig).example))
               ELSE LET item == extract(ItemsOf(propConfig), sch, d)
                    IN IF IsErr(item) THEN item ELSE Arr(item)
        ELSE IF propConfig.id # "undefined" /\ ~Truthy(ex0)
          THEN extract(propConfig, propConfig, d)
        ELSE IF Has(propConfig, "properties")
          THEN mapPropertiesToExamples(propConfig.properties, sch, d)
        ELSE IF Has(propConfig, "oneOf") \/ Has(propConfig, "anyOf")
          THEN extract(propConfig, sch, d)
        ELSE IF Has(propConfig, "allOf")
          THEN MapAllOf(propConfig.allOf, 1, IF Truthy(ex0) THEN ex0 ELSE Map(<<>>), sch, d)
        ELSE ex0
  IN IF IsErr(ex1) THEN ex1
     ELSE IF Has(propConfig, "exclusive")
       THEN PruneExclusive(ex1, propConfig.exclusive, 1)
     ELSE ex1

\* Lines 96-139: the _.transform callback, applied to the keys in order.
MapEach(props, order, i, properties, arg2) ==
  IF i > Len(order) THEN Map(properties)
  ELSE LET propName == order[i]
           propConfig == props[propName]
       IN IF StartsWithDunder(propName) \/ propConfig.private
            THEN MapEach(props, order, i + 1, properties, arg2)
          ELSE LET ex == PropertyExample(propConfig, arg2[1], arg2[2])
               IN IF IsErr(ex) THEN ex
                  ELSE MapEach(props, order, i + 1,
                         Union(properties, [n \in {OutName(propName)} |-> ex]), arg2)

\* Lines 93-140.
mapPropertiesToExamplesBody(props, sch, d) ==
  IF d > StackLimit THEN Err("RangeError")
  ELSE MapEach(props, OrderedKeys(props), 1, <<>>, <<sch, d + 1>>)

(***************************************************************************)
(* ObjectDefinition                                                        *)
(*                                                                         *)
(* A definition (the object build returns, and the one defineProperty      *)
(* returns, which is the same object with type/properties/oneOf/anyOf      *)
(* added) is a record; k is "def", "null" (build of a noDisplay node) or   *)
(* "err" (the call threw err).  allProps, requiredProps, optionalProps and *)
(* properties are [st, m]: st is "undefined", "null" or "map", m the       *)
(* mapping.  example holds the value handed to the external formatter,     *)
(* whose rendering is a non-empty string for every value but undefined.    *)
(* Every operator that runs code which deletes from the input returns the  *)
(* input as the code leaves it beside its result.                          *)
(***************************************************************************)
PUndef == [st |-> "undefined", m |-> <<>>]
PNull == [st |-> "null", m |-> <<>>]
PMap(f) == [st |-> "map", m |-> f]

EmptyDef ==
  [ k |-> "def", err |-> "", allProps |-> PUndef, requiredProps |-> PUndef,
    optionalProps |-> PUndef, objects |-> <<>>, example |-> Undefined,
    type |-> "undefined", properties |-> PUndef, variants |-> <<>> ]

NullDef == [EmptyDef EXCEPT !.k = "null"]
ErrDef(e) == [EmptyDef EXCEPT !.k = "err", !.err = e]

\* Lines 34-46: the object build starts from.
FreshSelf ==
  [EmptyDef EXCEPT !.allProps = PMap(<<>>), !.requiredProps = PMap(<<>>),
                   !.optionalProps = PMap(<<>>)]

\* _.extend(target, source) on a properties mapping: null and undefined
\* targets are returned untouched.
ExtendP(p, f) == IF p.st = "map" THEN PMap(Union(p.m, f)) ELSE p

\* _.isEmpty
IsEmptyP(p) == p.st # "map" \/ DOMAIN p.m = {}

SeqToSet(q) == {q[i] : i \in DOMAIN q}

\* _.pick(allProps, required) / _.omit(allProps, required), then null when
\* empty (lines 127-130).
PickRequired(allProps, required) ==
  LET picked == IF allProps.st = "map"
                  THEN Restrict(allProps.m, DOMAIN allProps.m \cap SeqToSet(required))
                ELSE <<>>
  IN IF DOMAIN picked = {} THEN PNull ELSE PMap(picked)

OmitRequired(allProps, required) ==
  LET rest == IF allProps.st = "map"
                THEN Without(allProps.m, SeqToSet(required))
              ELSE <<>>
  IN IF DOMAIN rest = {} THEN PNull ELSE PMap(rest)

TypeOfLiteral(l) ==
  CASE l \in {"s:x", "s:y", "s:", "s:unknown"} -> "string"
    [] l \in {"n:1", "n:0"} -> "number"
    [] l \in {"b:true", "b:false"} -> "boolean"
    [] OTHER -> "undefined"

\* _.merge(a, b, customizer) of lines 77-81 (lodash 3): undefined source
\* values are skipped, null and strings overwrite, mappings merge key by key,
\* arrays are concatenated by the customizer.
RECURSIVE MergeDef(_, _)
MergeP(p, q) ==
  CASE q.st = "undefined" -> p
    [] q.st = "null" -> q
    [] OTHER ->
       IF p.st # "map" THEN q
       ELSE PMap([x \in DOMAIN p.m \cup DOMAIN q.m |->
                    IF x \notin DOMAIN q.m THEN p.m[x]
                    ELSE IF x \notin DOMAIN p.m THEN q.m[x]
                    ELSE MergeDef(p.m[x], q.m[x])])

MergeDef(a, b) ==
  IF b.k # "def" THEN a
  ELSE [ k |-> "def", err |-> "",
         allProps |-> MergeP(a.allProps, b.allProps),
         requiredProps |-> MergeP(a.requiredProps, b.requiredProps),
         optionalProps |-> MergeP(a.optionalProps, b.optionalProps),
         objects |-> a.objects \o b.objects,
         example |-> IF b.example.k = "undef" THEN a.example ELSE b.example,
         type |-> IF b.type = "undefined" THEN a.type ELSE b.type,
         properties |-> MergeP(a.properties, b.properties),
         variants |-> a.variants \o b.variants ]

\* _.defaults(definition, built): fills the keys that are undefined.  A
\* definition that is not itself the result of build (whose requiredProps is
\* never undefined) has no objects key.
Defaults(definition, built) ==
  [ definition EXCEPT
      !.allProps = IF @.st = "undefined" THEN built.allProps ELSE @,
      !.requiredProps = IF @.st = "undefined" THEN built.requiredProps ELSE @,
      !.optionalProps = IF @.st = "undefined" THEN built.optionalProps ELSE @,
      !.objects = IF definition.requiredProps.st = "undefined" THEN built.objects ELSE @,
      !.example = IF @.k = "undef" THEN built.example ELSE @ ]

\* Lines 218-224: the value handed to the formatter.
getExampleFromProperty(property) ==
  LET extracted == mapPropertiesToExamples([n \in {"prop"} |-> property], UndefNode, 0)
  IN IF IsErr(extracted) THEN extracted
     ELSE IF "prop" \in DOMAIN extracted.m THEN extracted.m["prop"]
     ELSE Undefined

NoDisplayKeys(properties) == {x \in DOMAIN properties : properties[x].noDisplay}

RECURSIVE DefineEach(_, _, _, _)
RECURSIVE DefineAlternatives(_, _, _)
RECURSIVE BuildEach(_, _, _)
RECURSIVE AllOfLoop(_, _)

\* Line 157: _.mapValues(properties, this.defineProperty), key by key.
\* Returns [err, m, o]: the definitions and the properties as left.
DefineEach(properties, order, i, acc) ==
  IF i > Len(order) THEN [err |-> "", m |-> acc, o |-> properties]
  ELSE LET r == defineProperty(properties[order[i]])
           left == [properties EXCEPT ![order[i]] = r.o]
       IN IF r.d.k = "err" THEN [err |-> r.d.err, m |-> acc, o |-> left]
          ELSE DefineEach(left, order, i + 1, Union(acc, [n \in {order[i]} |-> r.d]))

\* Lines 151-158.
definePropertiesBody(properties) ==
  LET kept == Without(properties, NoDisplayKeys(properties))
  IN DefineEach(kept, OrderedKeys(kept), 1, <<>>)

\* Lines 181-188: the map over property.oneOf || property.anyOf.
\* st is [err, defs, list, example].
DefineAlternatives(st, i, n) ==
  IF st.err # "" \/ i > n THEN st
  ELSE LET object == st.list[i]
           r == IF object.type \in {"object", "array"} THEN build(object)
                ELSE defineProperty(object)
           list == [st.list EXCEPT ![i] = r.o]
       IN IF r.d.k = "err"
            THEN [st EXCEPT !.err = r.d.err, !.list = list]
          ELSE IF object.type \notin {"object", "array"} /\ r.d.k = "null"
            THEN [st EXCEPT !.err = "TypeError", !.list = list]
          ELSE DefineAlternatives(
                 [ err |-> "", defs |-> Append(st.defs, r.d), list |-> list,
                   example |-> IF object.type \in {"object", "array"}
                                 THEN st.example ELSE r.d.example ],
                 i + 1, n)

\* Lines 167-211.  Returns [d, o].
definePropertyBody(property) ==
  IF property.noDisplay THEN [d |-> NullDef, o |-> property]
  ELSE
    LET \* lines 174-196
        s1 ==
          IF Has(property, "allOf")
            THEN LET r == build(property) IN [d |-> r.d, o |-> r.o]
          ELSE IF Has(property, "oneOf") \/ Has(property, "anyOf")
            THEN LET key == IF Has(property, "oneOf") THEN "oneOf" ELSE "anyOf"
                     r == DefineAlternatives(
                            [err |-> "", defs |-> <<>>, list |-> property[key],
                             example |-> Undefined], 1, Len(property[key]))
                 IN [ d |-> IF r.err # "" THEN ErrDef(r.err)
                            ELSE [EmptyDef EXCEPT !.variants = r.defs,
                                                  !.example = r.example],
                      o |-> [property EXCEPT ![key] = r.list] ]
          ELSE IF Has(property, "properties")
            THEN LET r == defineProperties(property.properties)
                 IN [ d |-> IF r.err # "" THEN ErrDef(r.err)
                            ELSE [EmptyDef EXCEPT !.properties = PMap(r.m)],
                      o |-> [property EXCEPT !.properties = r.o] ]
          ELSE IF Has(property, "items") /\ Has(property.items[1], "properties")
            THEN LET r == defineProperties(property.items[1].properties)
                 IN [ d |-> IF r.err # "" THEN ErrDef(r.err)
                            ELSE [EmptyDef EXCEPT !.properties = PMap(r.m)],
                      o |-> [property EXCEPT !.items[1].properties = r.o] ]
          ELSE [d |-> EmptyDef, o |-> property]
        \* lines 199-203
        type == IF Has(s1.o, "enum")
                  THEN IF Len(s1.o.enum) > 0 THEN TypeOfLiteral(s1.o.enum[1])
                       ELSE "undefined"
                ELSE s1.o.type
        \* lines 206-208
        ex == IF s1.d.example.k # "undef" THEN s1.d.example
              ELSE getExampleFromProperty(s1.o)
        \* line 210
        built == build(s1.o)
    IN IF s1.d.k = "err" THEN s1
       ELSE IF IsErr(ex) THEN [d |-> ErrDef(ex.s), o |-> s1.o]
       ELSE IF built.d.k = "err" THEN built
       ELSE [ d |-> Defaults([s1.d EXCEPT !.type = type, !.example = ex], built.d),
              o |-> built.o ]

\* Line 89: _.map(objects, this.build).  st is [err, defs, list].
BuildEach(st, i, n) ==
  IF st.err # "" \/ i > n THEN st
  ELSE LET r == build(st.list[i])
           list == [st.list EXCEPT ![i] = r.o]
       IN IF r.d.k = "err" THEN [st EXCEPT !.err = r.d.err, !.list = list]
          ELSE BuildEach([err |-> "", defs |-> Append(st.defs, r.d), list |-> list],
                         i + 1, n)

\* Lines 61-73: the keys of schema.properties marked noDisplay are deleted
\* from the three mappings of self.
DeleteHidden(self, schema) ==
  LET hidden == IF Has(schema, "properties") THEN NoDisplayKeys(schema.properties)
                ELSE {}
  IN IF hidden = {} THEN self
     ELSE IF self.k = "null" THEN ErrDef("TypeError")
     ELSE [ self EXCEPT
              !.allProps = IF @.st = "map" THEN PMap(Without(@.m, hidden)) ELSE @,
              !.optionalProps = IF @.st = "map" THEN PMap(Without(@.m, hidden)) ELSE @,
              !.requiredProps = IF @.st = "map" THEN PMap(Without(@.m, hidden)) ELSE @ ]

\* A member closes the chain (line 56).
IsClosed(schema) == Has(schema, "additionalProperties") /\ schema.apKind = "false"

\* A loop that never sets the flag.
AddPropsFlagNeverSet(flag, schema) == FALSE

\* Lines 52, 56-58: addPropsFlag after the test of a member.
AddPropsFlag(flag, schema) == flag \/ IsClosed(schema)

\* Lines 54-83: one pass of the _.each over object.allOf.
\* st is [self, required, addPropsFlag, list].
AllOfLoop(st, i) ==
  IF st.self.k = "err" \/ i > Len(st.list) THEN st
  ELSE
    LET schema == st.list[i]
        required == st.required \o schema.required
        \* lines 56-59
        closing == IF IsClosed(schema) THEN build(schema)
                   ELSE [d |-> st.self, o |-> schema]
        flag == AddPropsFlag(st.addPropsFlag, schema)
        \* lines 61-73
        shown == IF closing.d.k = "err" THEN closing.d
                 ELSE DeleteHidden(closing.d, closing.o)
        \* lines 75-82
        merging == IF shown.k = "err" \/ flag THEN [d |-> shown, o |-> closing.o]
                   ELSE LET r == build(closing.o)
                        IN [ d |-> IF r.d.k = "err" THEN r.d
                                   ELSE MergeDef(shown, r.d),
                             o |-> r.o ]
    IN AllOfLoop([ self |-> merging.d, required |-> required,
                   addPropsFlag |-> flag,
                   list |-> [st.list EXCEPT ![i] = merging.o] ], i + 1)

IsSchema(node) == Has(node, "additionalProperties") /\ node.apKind = "schema"

\* _.extend(self.allProps, this.defineProperties(properties)):
\* [self, props], props being the properties as defineProperties leaves them.
DefineInto(self, properties) ==
  LET r == defineProperties(properties)
  IN [ self |-> IF r.err # "" THEN ErrDef(r.err)
                ELSE [self EXCEPT !.allProps = ExtendP(@, r.m)],
       props |-> r.o ]

\* Lines 87-91.  A stage takes and returns [self, o, required]: the
\* definition under construction, the input object as left so far, and the
\* required names.
BuildVariants(st) ==
  LET key == IF Has(st.o, "oneOf") THEN "oneOf" ELSE "anyOf"
      r == BuildEach([err |-> "", defs |-> <<>>, list |-> st.o[key]], 1, Len(st.o[key]))
  IN IF st.self.k = "err" \/ ~(Has(st.o, "oneOf") \/ Has(st.o, "anyOf")) THEN st
     ELSE [ st EXCEPT
              !.o = [st.o EXCEPT ![key] = r.list],
              !.self = IF r.err # "" THEN ErrDef(r.err)
                       ELSE IF @.k = "null" THEN ErrDef("TypeError")
                       ELSE [@ EXCEPT !.objects = r.defs] ]

\* Lines 93-102.
BuildProperties(st) ==
  IF st.self.k = "err" \/ ~Has(st.o, "properties") THEN st
  ELSE IF st.self.k = "null" THEN [st EXCEPT !.self = ErrDef("TypeError")]
  ELSE
    LET base == IF IsClosed(st.o) THEN [st.self EXCEPT !.allProps = PMap(<<>>)]
                ELSE st.self
        own == DefineInto(base, st.o.properties)
        more == DefineInto(own.self, st.o.additionalProperties)
    IN IF own.self.k = "err" \/ ~IsSchema(st.o)
         THEN [st EXCEPT !.self = own.self, !.o.properties = own.props]
       ELSE [st EXCEPT !.self = more.self, !.o.properties = own.props,
                       !.o.additionalProperties = more.props]

\* Lines 104-110: the additional properties are added to the allProps of
\* every entry of self.objects.
BuildAdditional(st) ==
  IF st.self.k = "err" \/ ~IsSchema(st.o) THEN st
  ELSE
    LET addtlProps == defineProperties(st.o.additionalProperties)
        objs == st.self.objects
    IN [ st EXCEPT
           !.o.additionalProperties = addtlProps.o,
           !.self =
             IF addtlProps.err # "" THEN ErrDef(addtlProps.err)
             ELSE IF @.k = "null" THEN ErrDef("TypeError")
             ELSE IF \E i \in DOMAIN objs : objs[i].k = "null" THEN ErrDef("TypeError")
             ELSE [@ EXCEPT !.objects =
                     [i \in DOMAIN objs |->
                        [objs[i] EXCEPT !.allProps = ExtendP(@, addtlProps.m)]]] ]

\* Lines 112-122.
BuildItems(st) ==
  IF st.self.k = "err" \/ ~Has(st.o, "items") \/ st.o.items[1].js # "map" THEN st
  ELSE IF st.self.k = "null" THEN [st EXCEPT !.self = ErrDef("TypeError")]
  ELSE
    LET items == st.o.items[1]
        base == IF IsClosed(items) THEN [st.self EXCEPT !.allProps = PMap(<<>>)]
                ELSE st.self
        own == DefineInto(base, items.properties)
        more == DefineInto(own.self, items.additionalProperties)
    IN IF own.self.k = "err" \/ ~IsSchema(items)
         THEN [st EXCEPT !.self = own.self, !.o.items[1].properties = own.props]
       ELSE [st EXCEPT !.self = more.self, !.o.items[1].properties = own.props,
                       !.o.items[1].additionalProperties = more.props]

\* Lines 124-141.
Finalize(st) ==
  IF st.self.k = "err" THEN st
  ELSE IF st.self.k = "null" THEN [st EXCEPT !.self = ErrDef("TypeError")]
  ELSE
    LET ex == extract(st.o, UndefNode, 0)
    IN [ st EXCEPT !.self =
           IF IsErr(ex) THEN ErrDef("Error")
           ELSE [ @ EXCEPT
                    !.requiredProps = PickRequired(st.self.allProps, st.required),
                    !.optionalProps = OmitRequired(st.self.allProps, st.required),
                    !.example = ex,
                    !.allProps = IF IsEmptyP(@) THEN PUndef ELSE @ ] ]

\* Lines 52-85.
BuildAllOf(object) ==
  LET start == [ self |-> FreshSelf, required |-> object.required,
                 addPropsFlag |-> FALSE, list |-> object.allOf ]
      end == IF Has(object, "allOf") THEN AllOfLoop(start, 1) ELSE start
  IN [ self |-> end.self, o |-> [object EXCEPT !.allOf = end.list],
       required |-> end.required ]

\* Lines 32-142.  Returns [d, o]: the definition (or null, or the error
\* thrown) and the object as the call leaves it.
buildBody(object) ==
  IF object.noDisplay THEN [d |-> NullDef, o |-> object]
  ELSE LET st == Finalize(BuildItems(BuildAdditional(BuildProperties(
                   BuildVariants(BuildAllOf(object))))))
       IN [d |-> st.self, o |-> st.o]

Call(method, a) ==
  CASE method = "extract" -> extractBody(a[1], a[2], a[3])
    [] method = "mapPropertiesToExamples" -> mapPropertiesToExamplesBody(a[1], a[2], a[3])
    [] method = "build" -> buildBody(a[1])
    [] method = "defineProperties" -> definePropertiesBody(a[1])
    [] method = "defineProperty" -> definePropertyBody(a[1])

(***************************************************************************)
(* The schemas the calls are made on.                                      *)
(***************************************************************************)
Literals == {"s:x", "n:1", "s:", "b:false"}

Shown == Mk([type |-> "string", example |-> "s:x"])
Hidden == Mk([type |-> "string", example |-> "s:x", noDisplay |-> TRUE])
Leaf(l) == Mk([type |-> "string", example |-> l])

SeqsUpTo(S, n) == UNION {[1..i -> S] : i \in 0..n}

\* Scalar leaves: with an example, with a default, with both, with neither.
LeafNodes ==
  {Leaf(l) : l \in Literals}
    \cup {Mk([type |-> "string", default |-> l]) : l \in {"s:y", "n:0"}}
    \cup {Mk([type |-> "string", example |-> "s:x", default |-> "s:y"]),
          Mk([type |-> "string"]), Blank}

\* properties maps over a and b, each shown or marked noDisplay.
PropMaps == UNION {[D -> {Shown, Hidden}] : D \in SUBSET {"a", "b"}}

ObjectSchemas ==
  {Mk([properties |-> P, required |-> R]) :
     P \in PropMaps, R \in {<<>>, <<"a">>, <<"b">>, <<"a", "b">>}}

Open(P, R) == Mk([properties |-> P, required |-> R])
Closed(P, R) ==
  Mk([properties |-> P, required |-> R, apKind |-> "false",
      additionalProperties |-> <<>>])

MemberProps ==
  {[n \in {"a"} |-> Shown], [n \in {"b"} |-> Shown], [n \in {"a"} |-> Hidden],
   [n \in {"a", "b"} |-> Shown]}

Members ==
  {Open(P, <<>>) : P \in MemberProps}
    \cup {Closed(P, <<>>) : P \in MemberProps}
    \cup {Open([n \in {"a"} |-> Shown], <<"a">>), Open([n \in {"b"} |-> Shown], <<"b">>),
          Mk([allOf |-> <<Open([n \in {"a"} |-> Shown], <<"a">>)>>]),
          Blank}

AllOfSchemas ==
  {Mk([allOf |-> L]) : L \in SeqsUpTo(Members, MaxMembers)}
    \cup {Mk([allOf |-> <<m>>, required |-> <<"b">>,
              properties |-> [n \in {"a", "b"} |-> Shown]]) : m \in Members}

Variants ==
  {Open([n \in {"a"} |-> Shown], <<>>), Open([n \in {"b"} |-> Shown], <<"b">>),
   Open([n \in {"a"} |-> Hidden], <<>>), Blank,
   Mk([type |-> "object", noDisplay |-> TRUE])}

VariantSchemas ==
  {Mk([oneOf |-> <<v, w>>]) : v, w \in Variants}
    \cup {Mk([anyOf |-> <<v>>, apKind |-> "schema",
              additionalProperties |-> [n \in {"c"} |-> Shown]]) : v \in Variants}
    \cup {Mk([oneOf |-> <<v>>, apKind |-> "schema",
              additionalProperties |-> [n \in {"c"} |-> X],
              properties |-> [n \in {"a"} |-> Shown]]) :
            v \in Variants, X \in {Shown, Hidden}}

ArraySchemas ==
  {Mk([type |-> "array", items |-> <<i>>]) :
     i \in {Shown, Leaf("n:1"), Open([n \in {"a", "b"} |-> Shown], <<"a">>),
            Closed([n \in {"a"} |-> Hidden], <<>>)}}
    \cup {Mk([type |-> "array"]),
          Mk([properties |-> [n \in {"a"} |-> Mk([type |-> "array"])]]),
          Mk([properties |-> [n \in {"a"} |-> Mk([type |-> "array", items |-> <<Leaf("n:1")>>])]])}

Alternatives ==
  {Leaf(l) : l \in Literals}
    \cup {Mk([type |-> "string"]), Open([n \in {"a"} |-> Shown], <<>>)}

ChoiceSchemas ==
  {Mk([oneOf |-> L]) : L \in SeqsUpTo(Alternatives, MaxAlternatives)}
    \cup {Mk([anyOf |-> L]) : L \in SeqsUpTo(Alternatives, MaxAlternatives)}
    \cup {Mk([oneOf |-> <<x>>, anyOf |-> <<Leaf("s:x")>>,
              properties |-> [n \in {"b"} |-> Leaf("n:1")]]) : x \in Alternatives}

Groups == {<<"a", "b">>, <<"b", "a">>, <<"a", "b", "c">>, <<"c">>}

ExclusiveSchemas ==
  {Mk([properties |-> [n \in {"a", "b", "c"} |-> Leaf(l)], exclusive |-> G]) :
     l \in {"s:x", "n:1"}, G \in SeqsUpTo(Groups, MaxGroups)}
    \cup {Mk([oneOf |-> <<Open([n \in {"a", "b"} |-> Leaf("n:1")], <<>>)>>,
              exclusive |-> <<g>>]) : g \in Groups}
    \cup {Mk([properties |->
                [n \in {"a"} |->
                   Mk([properties |-> [x \in {"a", "b"} |-> Leaf("s:x")],
                       exclusive |-> <<g>>])]]) : g \in Groups}
    \cup {Mk([example |-> "s:x", exclusive |-> <<<<"a", "b">>>>]),
          Mk([properties |-> [n \in {"a"} |-> Mk([exclusive |-> <<<<"a", "b">>>>])]])}

SelfRef == Mk([rel |-> "self"])

SelfSchemas ==
  {Mk([id |-> "root", properties |-> [n \in {"a", "b"} |-> IF n = "a" THEN Shown ELSE SelfRef]]),
   Mk([id |-> "root", rel |-> "self"]),
   Mk([id |-> "root", properties |-> [n \in {"a"} |-> Shown]]),
   Mk([properties |-> [n \in {"a", "b"} |-> IF n = "a" THEN Shown ELSE SelfRef]]),
   Mk([properties |-> [n \in {"ID", "__h"} |-> Shown]]),
   Mk([properties |-> [n \in {"a", "b"} |->
                         IF n = "a" THEN Shown
                         ELSE Mk([type |-> "string", example |-> "s:y", private |-> TRUE])]]),
   Mk([properties |-> [n \in {"a"} |-> Shown], apKind |-> "schema",
       additionalProperties |-> [n \in {"c"} |-> Leaf("s:y")],
       includeAdditionalProperties |-> TRUE]),
   Mk([properties |-> [n \in {"a"} |-> Mk([enum |-> <<"n:1", "n:0">>])]]),
   SelfRef, PrimNode}

Schemas ==
  LeafNodes \cup ObjectSchemas \cup AllOfSchemas \cup VariantSchemas
    \cup ArraySchemas \cup ChoiceSchemas \cup ExclusiveSchemas \cup SelfSchemas

\* A root the caller may hand to extract besides the component itself.
OtherRoot == Mk([id |-> "other", properties |-> [n \in {"c"} |-> Leaf("s:y")]])

(***************************************************************************)
(* The calls.                                                              *)
(***************************************************************************)
Init ==
  /\ doc \in Schemas
  /\ pristine = doc
  /\ arg = doc
  /\ rootArg = UndefNode
  /\ op = "none"
  /\ defResult = NullDef
  /\ exResult = Undefined

\* new ObjectDefinition(doc) / build(doc): lines 13-17, 32-142.
Build ==
  /\ LET r == build(doc)
     IN /\ defResult' = r.d
        /\ doc' = r.o
  /\ arg' = doc
  /\ rootArg' = UndefNode
  /\ op' = "build"
  /\ UNCHANGED <<pristine, exResult>>

\* extract(component, root): lines 19-80.  The caller hands the schema or
\* nothing as component, and nothing, the schema or another schema as root.
Extract ==
  \E component \in {doc, UndefNode}, rt \in {UndefNode, doc, OtherRoot} :
    /\ exResult' = extract(component, rt, 0)
    /\ arg' = component
    /\ rootArg' = rt
    /\ op' = "extract"
    /\ UNCHANGED <<doc, pristine, defResult>>

Next == Build \/ Extract

Spec == Init /\ [][Next]_vars

(***************************************************************************)
(* The claims.                                                             *)
(***************************************************************************)
Keys(p) == IF p.st = "map" THEN DOMAIN p.m ELSE {}

Built == op = "build" /\ defResult.k = "def"

\* requiredProps and optionalProps of one definition partition its allProps,
\* each null when empty.
PartitionHolds(d) ==
  /\ d.requiredProps.st \in {"map", "null"}
  /\ d.optionalProps.st \in {"map", "null"}
  /\ d.requiredProps.st = "map" => Keys(d.requiredProps) # {}
  /\ d.optionalProps.st = "map" => Keys(d.optionalProps) # {}
  /\ Keys(d.requiredProps) \cap Keys(d.optionalProps) = {}
  /\ Keys(d.requiredProps) \cup Keys(d.optionalProps) = Keys(d.allProps)

RECURSIVE PartitionTree(_)
PartitionTree(d) ==
  d.k = "def" =>
    /\ PartitionHolds(d)
    /\ \A i \in DOMAIN d.objects : PartitionTree(d.objects[i])

\* The required names build resolves for the root: lines 33 and 55.
ResolvedRequired(object) ==
  SeqToSet(object.required)
    \cup UNION {SeqToSet(object.allOf[i].required) : i \in DOMAIN object.allOf}

\* C1: in every ObjectDefinition of the tree build returns (the root and
\* every entry of objects, at any depth) requiredProps and optionalProps
\* partition allProps: disjoint, each null when empty, their union the keys of
\* allProps, and the root's requiredProps exactly the allProps keys in the
\* resolved required list.
C1_Partition ==
  Built =>
    /\ PartitionTree(defResult)
    /\ Keys(defResult.requiredProps) = Keys(defResult.allProps) \cap ResolvedRequired(arg)

\* A member that only declares properties, required names and, when closed,
\* additionalProperties: false, and hides nothing.
FlatMember(m) ==
  /\ m.js = "map"
  /\ m.keys \subseteq {"properties", "required", "additionalProperties", "type"}
  /\ Has(m, "additionalProperties") => m.apKind = "false"
  /\ ~m.noDisplay
  /\ NoDisplayKeys(m.properties) = {}

OnlyAllOf ==
  /\ op = "build"
  /\ arg.keys = {"allOf"}
  /\ \A i \in DOMAIN arg.allOf : FlatMember(arg.allOf[i])

MemberNames(m) == DOMAIN m.properties

ClosedMembers(list) == {i \in DOMAIN list : IsClosed(list[i])}

Last(S) == CHOOSE i \in S : \A j \in S : j <= i

\* The fold of the members in order: the union of the members' property
\* names, or, with a closed member, the names of the (last) closed member.
ReferenceFold(list) ==
  IF ClosedMembers(list) = {}
    THEN UNION {MemberNames(list[i]) : i \in DOMAIN list}
  ELSE MemberNames(list[Last(ClosedMembers(list))])

\* C2: for a schema whose only keyword is allOf and whose members hide
\* nothing, build returns a definition whose allProps keys are the fold of
\* the members in order: the union of the members' property names when no
\* member is closed, else exactly the names of the closed member (the last
\* one when several are), nothing merged before or after it.
C2_AllOfFold ==
  OnlyAllOf =>
    /\ defResult.k = "def"
    /\ Keys(defResult.allProps) = ReferenceFold(arg.allOf)

\* C2's case: a closed member followed by an open member that declares
\* another name, which is not merged in.
C2_Witness ==
  /\ OnlyAllOf
  /\ Len(arg.allOf) = 2
  /\ IsClosed(arg.allOf[1])
  /\ ~IsClosed(arg.allOf[2])
  /\ MemberNames(arg.allOf[2]) \ MemberNames(arg.allOf[1]) # {}
  /\ Keys(defResult.allProps) = MemberNames(arg.allOf[1])
  /\ Keys(defResult.allProps) # {}

\* A scalar leaf: a mapping that is not an array and has no composition,
\* self reference, properties or exclusive list.
IsLeafNode(n) ==
  /\ n.js = "map"
  /\ n.type # "array"
  /\ n.keys \cap {"allOf", "oneOf", "anyOf", "properties", "exclusive"} = {}
  /\ n.rel # "self"

\* C3: for a component with a oneOf or anyOf list (not an array, without
\* allOf) extract returns the example of the first listed alternative; when
\* that alternative is a leaf with an example, its literal ("x" for
\* [{example:"x"},{example:1}], 1 for the list reversed).
C3_FirstAlternative ==
  LET alts == IF Has(arg, "oneOf") THEN arg.oneOf ELSE arg.anyOf
  IN ( /\ op = "extract"
       /\ arg.js = "map"
       /\ arg.type # "array"
       /\ ~Has(arg, "allOf")
       /\ Has(arg, "oneOf") \/ Has(arg, "anyOf")
       /\ Len(alts) > 0
       /\ IsLeafNode(alts[1])
       /\ Has(alts[1], "example") )
     => exResult = Lit(alts[1].example)

\* The names that are a non-first member of some group.
NonFirst(groups) ==
  UNION {{groups[i][j] : j \in 2..Len(groups[i])} : i \in DOMAIN groups}

\* C4: for a component with an exclusive list, the mapping extract returns
\* holds no non-first member of any group, and every other key of the merged
\* example (the value before the pruning) is still there with its value.
C4_ExclusivePruned ==
  (op = "extract" /\ arg.js = "map" /\ Has(arg, "exclusive") /\ exResult.k = "map") =>
    LET merged == ExtractMerged(arg, rootArg, 0)
    IN /\ merged.k = "map"
       /\ DOMAIN exResult.m \cap NonFirst(arg.exclusive) = {}
       /\ \A key \in DOMAIN merged.m \ NonFirst(arg.exclusive) :
            key \in DOMAIN exResult.m /\ exResult.m[key] = merged.m[key]

\* C4's case: [["a","b"]] with a and b in the merged example; a is kept and
\* b is dropped.
C4_Witness ==
  /\ op = "extract"
  /\ arg.js = "map"
  /\ arg.exclusive = <<<<"a", "b">>>>
  /\ {"a", "b"} \subseteq DOMAIN ExtractMerged(arg, rootArg, 0).m
  /\ exResult.k = "map"
  /\ "a" \in DOMAIN exResult.m
  /\ "b" \notin DOMAIN exResult.m

\* C5: after any sequence of build and extract calls the schema object is
\* structurally what it was before the first call.
C5_InputUnchanged == doc = pristine

\* C6: extract ends in an error if and only if the component the caller
\* passed is falsy; every truthy component, however malformed, gets a value.
C6_ErrorIffFalsy ==
  op = "extract" => (IsErr(exResult) <=> arg.js = "undef")

\* C7: extract terminates on a schema with an id whose component or one of
\* whose properties has rel "self": the recursion returns instead of
\* re-entering extract until the call stack is exhausted.
C7_SelfReferenceTerminates ==
  ( /\ op = "extract"
    /\ arg.js = "map"
    /\ arg.id # "undefined"
    /\ \/ arg.rel = "self"
       \/ \E n \in DOMAIN arg.properties : arg.properties[n].rel = "self" )
  => ~(IsErr(exResult) /\ exResult.s = "RangeError")

\* The names marked noDisplay in the properties of some allOf member.
HiddenInMembers(object) ==
  UNION {NoDisplayKeys(object.allOf[i].properties) : i \in DOMAIN object.allOf}

\* C8: after build of a schema with allOf, no name marked noDisplay in the
\* properties of any member is a key of allProps, requiredProps or
\* optionalProps, wherever the member stands in the list.
C8_HiddenNeverShown ==
  (Built /\ Has(arg, "allOf")) =>
    HiddenInMembers(arg)
      \cap (Keys(defResult.allProps) \cup Keys(defResult.requiredProps)
              \cup Keys(defResult.optionalProps)) = {}

RECURSIVE RequiredDeep(_)
RequiredDeep(object) ==
  SeqToSet(object.required)
    \cup UNION {RequiredDeep(object.allOf[i]) : i \in DOMAIN object.allOf}

RECURSIVE NoClosedDeep(_)
NoClosedDeep(object) ==
  /\ ~IsClosed(object)
  /\ \A i \in DOMAIN object.allOf : NoClosedDeep(object.allOf[i])

\* C9: for an allOf chain of any depth with no closed member, every
\* property that some member at any depth lists in required and that is in
\* the merged allProps is a key of requiredProps and not of optionalProps.
C9_RequiredKept ==
  (Built /\ Has(arg, "allOf") /\ NoClosedDeep(arg)) =>
    \A key \in RequiredDeep(arg) \cap Keys(defResult.allProps) :
      /\ key \in Keys(defResult.requiredProps)
      /\ key \notin Keys(defResult.optionalProps)

\* C10: for a leaf, extract returns the literal example when the key is
\* present, otherwise the default, unchanged, whatever kind of literal it is,
\* and "unknown" for a node that is not a mapping.
C10_LeafLiteral ==
  ( /\ op = "extract"
    /\ \/ arg.js = "prim"
       \/ IsLeafNode(arg) /\ (Has(arg, "example") \/ Has(arg, "default")) )
  => exResult = IF arg.js = "prim" THEN Lit("s:unknown")
                ELSE IF Has(arg, "example") THEN Lit(arg.example)
                ELSE Lit(arg.default)

====
